---- MODULE Spec2Model ----
(***************************************************************************)
(* The authenticated API client of the QoE frontend                        *)
(* (frontend/src/services/api.ts) together with the zustand auth store     *)
(* (frontend/src/stores/authStore.ts) that persists under the same         *)
(* localStorage key 'auth-store', and the review controls of the           *)
(* Adjustments page and the change-password form of the Settings page      *)
(* (frontend/src/pages/Adjustments.tsx, Settings.tsx).                     *)
(*                                                                         *)
(* Spec is the client with the store operations that reach it, from every  *)
(* stored value the browser may hold; StoreSpec is the store with all its  *)
(* operations and page reloads over storage the store alone has written;   *)
(* AdjustmentsSpec and PasswordSpec are the two pages.                     *)
(*                                                                         *)
(* JavaScript runs one handler at a time: every action below is one        *)
(* handler run from its start (or from the await it resumes at) to its     *)
(* next await.  The server is the environment: it answers every            *)
(* transmission with a status of its choice and mints a fresh token for    *)
(* every successful login or refresh.                                      *)
(***************************************************************************)
EXTENDS Integers, FiniteSets, Sequences, TLC

\* Number of request slots (concurrent calls through the client).
NReq == 2
\* Number of tokens the server mints in one run.
MaxIssued == 2

Reqs == 1..NReq

\* JavaScript's undefined (a missing property) and null.
Undef == "undefined"
Null == "null"
Falsy == {Undef, Null}
\* config.headers.Authorization not set.
NoHeader == "none"

AccessTok(n) == "A" \o ToString(n)
RefreshTok(n) == "R" \o ToString(n)
UserOf(n) == "U" \o ToString(n)

----------------------------------------------------------------------------
(* localStorage values.  A stored string is modelled by what JSON.parse   *)
(* makes of it: nothing stored, text that does not parse, JSON without a  *)
(* state object, or JSON with a state object whose properties are listed  *)
(* (Undef for a property the object does not have).                       *)

Absent == [tag |-> "absent"]
Garbage == [tag |-> "garbage"]
NoState == [tag |-> "nostate"]

StateObj(u, t, a, rt) == [user |-> u, token |-> t, accessToken |-> a, refreshToken |-> rt]
Json(st) == [tag |-> "json", state |-> st]

\* JSON.stringify(authData): the stored text of a parsed object.
JSONstringify(st) == Json(st)

\* JSON.parse(text) followed by the reads of authData.state.<p>: "throws"
\* for unparseable text (SyntaxError) and for a value without a state
\* object (TypeError on authData.state.accessToken).
JSONparse(stored) ==
  IF stored.tag = "json" THEN [ok |-> TRUE, state |-> stored.state]
  ELSE [ok |-> FALSE, state |-> StateObj(Undef, Undef, Undef, Undef)]

\* zustand persist: every set() writes {state: partialize(state), version}
\* under 'auth-store'; partialize keeps user and token only.
partialize(u, t) == StateObj(u, t, Undef, Undef)
PersistWrite(u, t) == JSONstringify(partialize(u, t))

\* What the browser may hold under 'auth-store' when the page starts: the
\* store's own shape (logged out / logged in), the shape the interceptors
\* read (accessToken / refreshToken), partial shapes, and unusable values.
InitialStored ==
  { Absent, Garbage, NoState,
    Json(StateObj(Null, Null, Undef, Undef)),
    Json(StateObj("U0", "A0", Undef, Undef)),
    Json(StateObj("U0", "A0", "A0", "R0")),
    Json(StateObj(Undef, Undef, "A0", "R0")),
    Json(StateObj("U0", "A0", "A0", Undef)),
    Json(StateObj("U0", "A0", Undef, "R0")) }

\* persist's merge on rehydration: a stored property replaces the default.
Hydrated(stored, p) ==
  IF stored.tag = "json" /\ stored.state[p] # Undef THEN stored.state[p] ELSE Null

----------------------------------------------------------------------------
VARIABLES
  lsAuthStore,  \* localStorage['auth-store']
  lsToken,      \* localStorage['token'] (Null: no such key)
  user,         \* useAuthStore: user
  token,        \* useAuthStore: token
  isLoading,    \* useAuthStore: isLoading
  redirects,    \* number of assignments window.location.href = '/login'
  issued,       \* number of tokens the server has minted
  req,          \* the calls through the api client, one record per slot
  adjustments,        \* Adjustments: the query data, status per adjustment id
  selectedAdjustment, \* Adjustments: useState selectedAdjustment (its id)
  showReviewModal,    \* Adjustments: useState showReviewModal
  reviews,            \* Adjustments: the mutations started by reviewMutation
  formData,           \* PasswordSettings: useState formData
  passwordMutation,   \* PasswordSettings: the state of passwordMutation
  toast               \* PasswordSettings: the last toast shown

authVars == <<lsAuthStore, lsToken, user, token, isLoading, redirects, issued, req>>
adjVars == <<adjustments, selectedAdjustment, showReviewModal, reviews>>
pwVars == <<formData, passwordMutation, toast>>
vars == <<authVars, adjVars, pwVars>>

\* Number of adjustments in the list, and of review mutations in one run.
NAdj == 2
MaxReviews == 2

AdjIds == 1..NAdj

\* selectedAdjustment === null (the ids of adjustments are positive).
NoAdjustment == 0

\* The Adjustments page as mounted: nothing selected, modal closed.
AdjustmentsMounted ==
  /\ selectedAdjustment = NoAdjustment
  /\ showReviewModal = FALSE
  /\ reviews = << >>

\* The text of an input, and the PasswordSettings form as mounted.
Texts == {"", "p", "q"}
Fields == {"current_password", "new_password", "confirm_password"}
EmptyForm == [current_password |-> "", new_password |-> "", confirm_password |-> ""]
\* passwordMutation before any mutate: no variables, no request sent.
NoRequest == [method |-> "none", url |-> "", body |-> EmptyForm]
IdleMutation == [status |-> "idle", variables |-> EmptyForm, request |-> NoRequest]

PasswordSettingsMounted ==
  /\ formData = EmptyForm
  /\ passwordMutation = IdleMutation
  /\ toast = "none"

NoResp == [from |-> "none", status |-> 0, access_token |-> Undef,
           refresh_token |-> Undef, user |-> Undef]

IdleReq ==
  [pc |-> "idle", kind |-> "none", retry |-> FALSE, hdr |-> NoHeader,
   sends |-> 0, refreshes |-> 0, authData |-> StateObj(Undef, Undef, Undef, Undef),
   sentRefresh |-> Undef, resp |-> NoResp, outcome |-> "pending",
   errFrom |-> "none", errStatus |-> 0]

Init ==
  /\ lsAuthStore \in InitialStored
  /\ user = Hydrated(lsAuthStore, "user")
  /\ token = Hydrated(lsAuthStore, "token")
  /\ lsToken = token
  /\ isLoading = FALSE
  /\ redirects = 0
  /\ issued = 0
  /\ req = [r \in Reqs |-> IdleReq]
  /\ adjustments = [a \in AdjIds |-> "pending"]
  /\ AdjustmentsMounted
  /\ PasswordSettingsMounted

----------------------------------------------------------------------------
(* The server.                                                             *)

Resp(from, status, a, rt, u) ==
  [from |-> from, status |-> status, access_token |-> a,
   refresh_token |-> rt, user |-> u]

\* Error statuses; 0 stands for "no response received" (network error).
ErrorStatuses == {401, 500, 0}

\* Answers to a transmission through api: POST /auth/login answers 200 with
\* a fresh access token and the user; POST /auth/refresh sent by the store's
\* refreshToken answers 200 with a fresh access token; any other endpoint
\* answers a plain 200.
ApiAnswers(kind) ==
  { Resp("api", s, Undef, Undef, Undef) : s \in ErrorStatuses }
  \cup (IF kind = "login"
        THEN (IF issued < MaxIssued
              THEN { Resp("api", 200, AccessTok(issued + 1), RefreshTok(issued + 1),
                          UserOf(issued + 1)) }
              ELSE {})
        ELSE IF kind = "refreshToken"
        THEN (IF issued < MaxIssued
              THEN { Resp("api", 200, AccessTok(issued + 1), RefreshTok(issued + 1),
                          Undef) }
              ELSE {})
        ELSE { Resp("api", 200, Undef, Undef, Undef) })

\* Answers of POST /auth/refresh: { access_token, refresh_token } (rotating),
\* { access_token } (refresh token reused), or a failure.
RefreshAnswers ==
  { Resp("refresh", s, Undef, Undef, Undef) : s \in ErrorStatuses }
  \cup (IF issued < MaxIssued
        THEN { Resp("refresh", 200, AccessTok(issued + 1), RefreshTok(issued + 1), Undef),
               Resp("refresh", 200, AccessTok(issued + 1), Undef, Undef) }
        ELSE {})

Mint(resp) == IF resp.access_token # Undef THEN issued + 1 ELSE issued

----------------------------------------------------------------------------
(* api.ts: the request interceptor.                                        *)

\* The property of the persisted state the request interceptor reads.
HeaderProperty == "accessToken"

\* api.interceptors.request.use: the Authorization header of the outgoing
\* config, given the stored value and the header the config already has.
RequestInterceptor(stored, hdr) ==
  IF stored = Absent THEN hdr
  ELSE LET authData == JSONparse(stored) IN
       IF authData.ok /\ authData.state[HeaderProperty] \notin Falsy
       THEN authData.state[HeaderProperty]
       ELSE hdr

----------------------------------------------------------------------------
(* authStore.ts: what runs when the promise of a call settles.             *)

\* A login that ends the session it finds when the request fails.
LoginSettled_ClearsOnFailure(rec, stored1) ==
  IF rec.outcome = "resolved"
  THEN /\ lsToken' = rec.resp.access_token
       /\ user' = rec.resp.user
       /\ token' = rec.resp.access_token
       /\ isLoading' = FALSE
       /\ lsAuthStore' = PersistWrite(rec.resp.user, rec.resp.access_token)
  ELSE /\ lsToken' = Null
       /\ user' = Null
       /\ token' = Null
       /\ isLoading' = FALSE
       /\ lsAuthStore' = PersistWrite(Null, Null)

\* login's continuation after await authApi.login: on success store the
\* token under 'token' and set user, token, isLoading; on failure set
\* isLoading only.  stored1 is 'auth-store' as the interceptor left it;
\* every set() then rewrites it.
LoginSettled(rec, stored1) ==
  IF rec.outcome = "resolved"
  THEN /\ lsToken' = rec.resp.access_token
       /\ user' = rec.resp.user
       /\ token' = rec.resp.access_token
       /\ isLoading' = FALSE
       /\ lsAuthStore' = PersistWrite(rec.resp.user, rec.resp.access_token)
  ELSE /\ isLoading' = FALSE
       /\ lsAuthStore' = PersistWrite(user, token)
       /\ UNCHANGED <<lsToken, user, token>>

\* A refreshToken that leaves the session as it is when the request fails.
RefreshTokenSettled_KeepsOnFailure(rec, stored1) ==
  IF rec.outcome = "resolved"
  THEN /\ lsToken' = rec.resp.access_token
       /\ token' = rec.resp.access_token
       /\ lsAuthStore' = PersistWrite(user, rec.resp.access_token)
       /\ UNCHANGED <<user, isLoading>>
  ELSE /\ lsAuthStore' = stored1
       /\ UNCHANGED <<lsToken, user, token, isLoading>>

\* refreshToken's continuation after await authApi.refreshToken(): on
\* success store the new token under 'token' and set({token}); on failure
\* get().logout() and rethrow.
RefreshTokenSettled(rec, stored1) ==
  IF rec.outcome = "resolved"
  THEN /\ lsToken' = rec.resp.access_token
       /\ token' = rec.resp.access_token
       /\ lsAuthStore' = PersistWrite(user, rec.resp.access_token)
       /\ UNCHANGED <<user, isLoading>>
  ELSE /\ lsToken' = Null
       /\ user' = Null
       /\ token' = Null
       /\ isLoading' = FALSE
       /\ lsAuthStore' = PersistWrite(Null, Null)

\* The promise returned by api(...) settles: rec is the call's final record.
Settle(r, rec, stored1, red1) ==
  /\ req' = [req EXCEPT ![r] = [rec EXCEPT !.pc = "done"]]
  /\ redirects' = red1
  /\ issued' = Mint(rec.resp)
  /\ IF rec.kind = "login"
     THEN LoginSettled(rec, stored1)
     ELSE IF rec.kind = "refreshToken"
     THEN RefreshTokenSettled(rec, stored1)
     ELSE /\ lsAuthStore' = stored1
          /\ UNCHANGED <<lsToken, user, token, isLoading>>

----------------------------------------------------------------------------
(* api.ts: the response interceptor.                                       *)

\* A handler that refreshes on every 401, whatever the _retry flag says.
ShouldRefresh_IgnoreRetry(rec, resp) == resp.status = 401

\* A handler that also refreshes on a server error.
ShouldRefresh_ServerError(rec, resp) == resp.status \in {401, 500} /\ ~rec.retry

\* A handler that takes a missing response for an expired token.
ShouldRefresh_NoResponse(rec, resp) == resp.status \in {401, 0} /\ ~rec.retry

\* error.response?.status === 401 && !originalRequest._retry
ShouldRefresh(rec, resp) == resp.status = 401 /\ ~rec.retry

\* A handler that forgets to mark the request as retried.
MarkRetried_Forgotten(rec) == rec

\* originalRequest._retry = true
MarkRetried(rec) == [rec EXCEPT !.retry = TRUE]

\* A handler that reports the failed transmission to its caller as settled
\* without an error.
Rejected_Swallowed(rec, resp) == [rec EXCEPT !.outcome = "resolved", !.resp = resp]

\* The error the caller gets from `return Promise.reject(error)`: the error
\* of the transmission just answered (the first one, or the replay).
Rejected(rec, resp) ==
  [rec EXCEPT !.outcome = "rejected", !.resp = resp,
              !.errFrom = IF rec.sends = 1 THEN "first" ELSE "replay",
              !.errStatus = resp.status]

\* catch (refreshError): the key the handler leaves, and the error it
\* rejects with (the refresh call's error, or the exception thrown by
\* JSON.parse / authData.state.refreshToken).
StoredAfterCatch(stored) == Absent

CaughtError(rec, resp, from) ==
  [rec EXCEPT !.outcome = "rejected", !.resp = resp, !.errFrom = from,
              !.errStatus = resp.status]

\* A handler that writes authData back without the new access token.
StoredAfterRefresh_Stale(authData, resp) == JSONstringify(authData)

\* authData.state.accessToken = newToken; setItem('auth-store', stringify).
StoredAfterRefresh(authData, resp) ==
  JSONstringify([authData EXCEPT !.accessToken = resp.access_token])

\* originalRequest.headers.Authorization, set before api(originalRequest).
ReplayHeaderSet(rec, resp) == resp.access_token

\* The response to a transmission of call r arrives.
Respond(r) ==
  /\ UNCHANGED <<adjVars, pwVars>>
  /\ req[r].pc = "sent"
  /\ \E resp \in ApiAnswers(req[r].kind) :
       LET rec == req[r] IN
       IF resp.status = 200
       THEN Settle(r, [rec EXCEPT !.outcome = "resolved", !.resp = resp],
                   lsAuthStore, redirects)
       ELSE IF ~ShouldRefresh(rec, resp)
       THEN Settle(r, Rejected(rec, resp), lsAuthStore, redirects)
       ELSE LET rec1 == MarkRetried(rec)
                authData == JSONparse(lsAuthStore) IN
            IF lsAuthStore = Absent
            THEN Settle(r, Rejected(rec1, resp), lsAuthStore, redirects)
            ELSE IF ~authData.ok
            THEN Settle(r, CaughtError(rec1, resp, "exception"),
                        StoredAfterCatch(lsAuthStore), redirects + 1)
            ELSE IF authData.state.refreshToken \in Falsy
            THEN Settle(r, Rejected(rec1, resp), lsAuthStore, redirects)
            ELSE /\ req' = [req EXCEPT ![r] =
                      [rec1 EXCEPT !.pc = "refreshing", !.resp = resp,
                                   !.authData = authData.state,
                                   !.sentRefresh = authData.state.refreshToken,
                                   !.refreshes = @ + 1]]
                 /\ UNCHANGED <<lsAuthStore, lsToken, user, token, isLoading,
                                redirects, issued>>

\* The answer of POST /auth/refresh issued for call r arrives.
RefreshRespond(r) ==
  /\ UNCHANGED <<adjVars, pwVars>>
  /\ req[r].pc = "refreshing"
  /\ \E resp \in RefreshAnswers :
       LET rec == req[r] IN
       IF resp.status = 200
       THEN LET stored1 == StoredAfterRefresh(rec.authData, resp) IN
            /\ lsAuthStore' = stored1
            /\ req' = [req EXCEPT ![r] =
                 [rec EXCEPT !.pc = "sent", !.resp = resp,
                             !.hdr = RequestInterceptor(stored1, ReplayHeaderSet(rec, resp)),
                             !.sends = @ + 1]]
            /\ issued' = Mint(resp)
            /\ UNCHANGED <<lsToken, user, token, isLoading, redirects>>
       ELSE Settle(r, CaughtError(rec, resp, "refresh"),
                   StoredAfterCatch(lsAuthStore), redirects + 1)

----------------------------------------------------------------------------
(* Calls.                                                                  *)

\* Any api call of a page (projects, documents, adjustments, ...).
Send(r) ==
  /\ UNCHANGED <<adjVars, pwVars>>
  /\ req[r].pc = "idle"
  /\ req' = [req EXCEPT ![r] =
       [@ EXCEPT !.pc = "sent", !.kind = "domain",
                 !.hdr = RequestInterceptor(lsAuthStore, NoHeader), !.sends = 1]]
  /\ UNCHANGED <<lsAuthStore, lsToken, user, token, isLoading, redirects, issued>>

\* useAuthStore.login up to its await: set({isLoading: true}), then the
\* POST /auth/login through api.
Login(r) ==
  /\ UNCHANGED <<adjVars, pwVars>>
  /\ req[r].pc = "idle"
  /\ isLoading' = TRUE
  /\ lsAuthStore' = PersistWrite(user, token)
  /\ req' = [req EXCEPT ![r] =
       [@ EXCEPT !.pc = "sent", !.kind = "login",
                 !.hdr = RequestInterceptor(lsAuthStore', NoHeader), !.sends = 1]]
  /\ UNCHANGED <<lsToken, user, token, redirects, issued>>

\* A logout that forgets localStorage.removeItem('token').
Logout_KeepsTokenKey ==
  /\ UNCHANGED <<adjVars, pwVars>>
  /\ user' = Null
  /\ token' = Null
  /\ isLoading' = FALSE
  /\ lsAuthStore' = PersistWrite(Null, Null)
  /\ UNCHANGED <<lsToken, redirects, issued, req>>

\* useAuthStore.logout.
Logout ==
  /\ UNCHANGED <<adjVars, pwVars>>
  /\ lsToken' = Null
  /\ user' = Null
  /\ token' = Null
  /\ isLoading' = FALSE
  /\ lsAuthStore' = PersistWrite(Null, Null)
  /\ UNCHANGED <<redirects, issued, req>>

\* The identity request of checkAuth: authStore.ts calls authApi.me(), and
\* the authApi object of api.ts has getMe but no me, so the call throws a
\* TypeError inside the try block before any request is built.
IdentityCallThrows == TRUE

\* A checkAuth whose catch block forgets localStorage.removeItem('token').
CheckAuth_KeepsTokenKey ==
  /\ UNCHANGED <<adjVars, pwVars>>
  /\ user' = Null
  /\ token' = Null
  /\ isLoading' = FALSE
  /\ lsAuthStore' = PersistWrite(Null, Null)
  /\ UNCHANGED <<lsToken, redirects, issued, req>>

\* useAuthStore.checkAuth (run by App on mount).  Without a token under
\* 'token': set({user: null, token: null, isLoading: false}).  With one:
\* set({isLoading: true}), the identity call throws, and the catch block
\* removes 'token' and sets user and token to null.  No await is reached,
\* so the whole operation is one handler run.
CheckAuth ==
  /\ UNCHANGED <<adjVars, pwVars>>
  /\ IF lsToken \in Falsy
     THEN lsToken' = lsToken
     ELSE /\ IdentityCallThrows
          /\ lsToken' = Null
  /\ user' = Null
  /\ token' = Null
  /\ isLoading' = FALSE
  /\ lsAuthStore' = PersistWrite(Null, Null)
  /\ UNCHANGED <<redirects, issued, req>>

\* useAuthStore.refreshToken up to its await: authApi.refreshToken() is
\* called without an argument, so the body of the POST /auth/refresh sent
\* through api is { refresh_token: undefined }.
RefreshToken(r) ==
  /\ UNCHANGED <<adjVars, pwVars>>
  /\ req[r].pc = "idle"
  /\ req' = [req EXCEPT ![r] =
       [@ EXCEPT !.pc = "sent", !.kind = "refreshToken",
                 !.hdr = RequestInterceptor(lsAuthStore, NoHeader), !.sends = 1]]
  /\ UNCHANGED <<lsAuthStore, lsToken, user, token, isLoading, redirects, issued>>

\* The page is loaded again: the calls of the old page are gone, the store
\* is created with its defaults and persist merges what 'auth-store' holds;
\* localStorage and the server keep their state.
Restart ==
  /\ UNCHANGED <<adjVars, pwVars>>
  /\ req' = [r \in Reqs |-> IdleReq]
  /\ user' = Hydrated(lsAuthStore, "user")
  /\ token' = Hydrated(lsAuthStore, "token")
  /\ isLoading' = FALSE
  /\ redirects' = 0
  /\ UNCHANGED <<lsAuthStore, lsToken, issued>>

Next ==
  \/ \E r \in Reqs : Send(r)
  \/ \E r \in Reqs : Login(r)
  \/ \E r \in Reqs : Respond(r)
  \/ \E r \in Reqs : RefreshRespond(r)
  \/ Logout
  \/ CheckAuth

Spec == Init /\ [][Next]_vars

\* What 'auth-store' holds when only this store has written it: nothing
\* (first visit), or partialize of a logged-out or a logged-in state.
OwnStored == { Absent, PersistWrite(Null, Null), PersistWrite("U0", "A0") }

StoreInit == Init /\ lsAuthStore \in OwnStored

\* The store with all its operations and page reloads, over the client,
\* where 'auth-store' is written by the store alone.  No refresh token is
\* ever stored then, so the client never issues its own refresh call.
StoreNext ==
  \/ \E r \in Reqs : Send(r)
  \/ \E r \in Reqs : Login(r)
  \/ \E r \in Reqs : RefreshToken(r)
  \/ \E r \in Reqs : Respond(r)
  \/ CheckAuth
  \/ Logout
  \/ Restart

StoreSpec == StoreInit /\ [][StoreNext]_vars

----------------------------------------------------------------------------
(* The pages run behind the login: the store and the client at rest with  *)
(* a session.                                                              *)
SignedIn ==
  /\ lsAuthStore = PersistWrite("U0", "A0")
  /\ user = "U0"
  /\ token = "A0"
  /\ lsToken = "A0"
  /\ isLoading = FALSE
  /\ redirects = 0
  /\ issued = 0
  /\ req = [r \in Reqs |-> IdleReq]

----------------------------------------------------------------------------
(* pages/Adjustments.tsx: the review of adjustments.                       *)

\* JavaScript values handed to a function: a number or an object.
Num(n) == [type |-> "number", value |-> n]
Obj(fields) == [type |-> "object", value |-> fields]

\* `${v}`: the digits of a number, "[object Object]" for an object.
TemplateLiteral(v) ==
  IF v.type = "number" THEN ToString(v.value) ELSE "[object Object]"

\* adjustmentsApi.reviewAdjustment(id, reviewData): the request it posts.
reviewAdjustment(id, reviewData) ==
  [method |-> "POST",
   url |-> "/adjustments/" \o TemplateLiteral(id) \o "/review",
   body |-> reviewData]

\* reviewMutation.mutate(variables): react-query calls the mutation
\* function with the variables object as its only argument.
mutate(variables) == reviewAdjustment(Obj(variables), Undef)

\* The statuses of the select of the review modal, and of the inline
\* Accept and Reject controls.
ReviewStatuses == {"pending", "accepted", "rejected", "modified"}
InlineStatuses == {"accepted", "rejected"}

\* handleSubmitReview(reviewData), run for the control of `row`
\* (NoAdjustment for the form of the modal): mutate only when an adjustment is selected, with
\* the id of the selected one.
handleSubmitReview(status, row) ==
  IF selectedAdjustment # NoAdjustment
  THEN reviews' = Append(reviews,
         [row |-> row,
          variables |-> [id |-> selectedAdjustment, status |-> status],
          request |-> mutate([id |-> selectedAdjustment, status |-> status]),
          state |-> "loading"])
  ELSE reviews' = reviews

\* reviewMutation.isLoading: the last mutation started is still running.
ReviewIsLoading ==
  Len(reviews) > 0 /\ reviews[Len(reviews)].state = "loading"

\* The Review (eye) control of a row: handleReview(adjustment).  The open
\* modal covers the table, so the rows are reachable only while it is closed.
HandleReview(a) ==
  /\ ~showReviewModal
  /\ selectedAdjustment' = a
  /\ showReviewModal' = TRUE
  /\ UNCHANGED <<adjustments, reviews, authVars, pwVars>>

\* The inline Accept or Reject control of a pending row.
InlineReview(a, status) ==
  /\ ~showReviewModal
  /\ adjustments[a] = "pending"
  /\ Len(reviews) < MaxReviews
  /\ handleSubmitReview(status, a)
  /\ UNCHANGED <<adjustments, selectedAdjustment, showReviewModal, authVars, pwVars>>

\* The form of the review modal is submitted (its button is disabled while
\* the mutation is loading).
ModalSubmit(status) ==
  /\ showReviewModal /\ selectedAdjustment # NoAdjustment
  /\ ~ReviewIsLoading
  /\ Len(reviews) < MaxReviews
  /\ handleSubmitReview(status, NoAdjustment)
  /\ UNCHANGED <<adjustments, selectedAdjustment, showReviewModal, authVars, pwVars>>

\* Cancel in the review modal: onClose.
ModalClose ==
  /\ showReviewModal
  /\ showReviewModal' = FALSE
  /\ UNCHANGED <<adjustments, selectedAdjustment, reviews, authVars, pwVars>>

\* The list after invalidateQueries('adjustments'): the server has applied
\* the review to the adjustment the url names, when it names one and the
\* request has a body.
Refetched(request) ==
  [a \in AdjIds |->
     IF request.url = "/adjustments/" \o ToString(a) \o "/review"
        /\ request.body # Undef
     THEN request.body.status
     ELSE adjustments[a]]

\* The answer to review mutation i: onSuccess refetches the list and
\* closes the modal, onError shows a toast.
ReviewAnswered(i) ==
  /\ reviews[i].state = "loading"
  /\ \E ok \in BOOLEAN :
       IF ok
       THEN /\ reviews' = [reviews EXCEPT ![i].state = "success"]
            /\ adjustments' = Refetched(reviews[i].request)
            /\ showReviewModal' = FALSE
       ELSE /\ reviews' = [reviews EXCEPT ![i].state = "error"]
            /\ UNCHANGED <<adjustments, showReviewModal>>
  /\ UNCHANGED <<selectedAdjustment, authVars, pwVars>>

AdjustmentsInit ==
  /\ SignedIn
  /\ adjustments \in [AdjIds -> ReviewStatuses]
  /\ AdjustmentsMounted
  /\ PasswordSettingsMounted

AdjustmentsNext ==
  \/ \E a \in AdjIds : HandleReview(a)
  \/ \E a \in AdjIds, status \in InlineStatuses : InlineReview(a, status)
  \/ \E status \in ReviewStatuses : ModalSubmit(status)
  \/ ModalClose
  \/ \E i \in 1..Len(reviews) : ReviewAnswered(i)

AdjustmentsSpec == AdjustmentsInit /\ [][AdjustmentsNext]_vars

----------------------------------------------------------------------------
(* pages/Settings.tsx: PasswordSettings.                                   *)

\* usersApi.changePassword(passwordData): the request it sends.
changePassword(passwordData) ==
  [method |-> "PUT", url |-> "/users/password", body |-> passwordData]

\* A form that takes any two passwords for equal.
PasswordsDiffer_Never(fd) == FALSE

\* formData.new_password !== formData.confirm_password
PasswordsDiffer(fd) == fd.new_password # fd.confirm_password

\* The three inputs are `required`: the browser submits the form only
\* when none is empty.
RequiredFilled(fd) == \A f \in Fields : fd[f] # ""

\* handleChange: one input is edited.
HandleChange(f, v) ==
  /\ formData' = [formData EXCEPT ![f] = v]
  /\ UNCHANGED <<passwordMutation, toast, authVars, adjVars>>

\* handleSubmit (the submit button is disabled while the mutation is
\* loading).
HandleSubmit ==
  /\ passwordMutation.status # "loading"
  /\ RequiredFilled(formData)
  /\ IF PasswordsDiffer(formData)
     THEN /\ toast' = "Passwords do not match"
          /\ UNCHANGED <<formData, passwordMutation>>
     ELSE /\ passwordMutation' = [status |-> "loading", variables |-> formData,
                                  request |-> changePassword(formData)]
          /\ UNCHANGED <<formData, toast>>
  /\ UNCHANGED <<authVars, adjVars>>

\* The answer to the change-password request: onSuccess resets the form,
\* onError keeps it.
PasswordAnswered ==
  /\ passwordMutation.status = "loading"
  /\ \E ok \in BOOLEAN :
       IF ok
       THEN /\ passwordMutation' = [passwordMutation EXCEPT !.status = "success"]
            /\ toast' = "Password changed successfully"
            /\ formData' = EmptyForm
       ELSE /\ passwordMutation' = [passwordMutation EXCEPT !.status = "error"]
            /\ toast' = "Failed to change password"
            /\ formData' = formData
  /\ UNCHANGED <<authVars, adjVars>>

PasswordInit ==
  /\ SignedIn
  /\ adjustments = [a \in AdjIds |-> "pending"]
  /\ AdjustmentsMounted
  /\ PasswordSettingsMounted

PasswordNext ==
  \/ \E f \in Fields, v \in Texts : HandleChange(f, v)
  \/ HandleSubmit
  \/ PasswordAnswered

PasswordSpec == PasswordInit /\ [][PasswordNext]_vars

----------------------------------------------------------------------------
(* Claims.                                                                 *)

\* A step in which call r is transmitted (first transmission or replay).
Transmitted(r) == req'[r].sends = req[r].sends + 1

\* A step in which the answer of the refresh call of r is handled.
RefreshAnswered(r) == req[r].pc = "refreshing" /\ req'[r] # req[r]

\* A step in which the answer to a transmission of r is handled.
Answered(r) == req[r].pc = "sent" /\ req'[r] # req[r]

\* C1: when several calls receive their first 401 concurrently while a
\* refresh token is stored, exactly one refresh call is issued: no two
\* refresh calls are ever in flight together.
C1_SingleRefreshInFlight ==
  Cardinality({ r \in Reqs : req[r].pc = "refreshing" }) <= 1

\* C2: whenever the auth store holds a non-null token, every request sent
\* through the client carries Authorization: Bearer <that token>.
C2_BearerIsStoreToken ==
  [][\A r \in Reqs :
       (Transmitted(r) /\ token' \notin Falsy) => req'[r].hdr = token']_vars

\* C3: after a successful refresh the call is replayed with the returned
\* access token, and the store holds that access token together with the
\* refresh token of the response when it has one, else the one it held.
C3_RefreshStoresReturnedPair ==
  [][\A r \in Reqs :
       (RefreshAnswered(r) /\ req'[r].resp.status = 200) =>
         /\ req'[r].pc = "sent"
         /\ req'[r].hdr = req'[r].resp.access_token
         /\ lsAuthStore'.tag = "json"
         /\ lsAuthStore'.state.accessToken = req'[r].resp.access_token
         /\ lsAuthStore'.state.refreshToken =
              (IF req'[r].resp.refresh_token # Undef
               THEN req'[r].resp.refresh_token
               ELSE req[r].sentRefresh)]_vars

\* C4: when the refresh call fails (an error status or no response), the
\* persisted session is removed, the redirect to /login is signalled, the
\* call is not replayed and it is rejected.
C4_RefreshFailureEndsSession ==
  [][\A r \in Reqs :
       (RefreshAnswered(r) /\ req'[r].resp.status # 200) =>
         /\ lsAuthStore' = Absent
         /\ redirects' = redirects + 1
         /\ req'[r].pc = "done"
         /\ req'[r].outcome = "rejected"
         /\ req'[r].sends = req[r].sends]_vars

\* C5: when the refresh call fails, the caller of the original request is
\* rejected with that request's own 401 error, not with the refresh error.
C5_OriginalErrorOnRefreshFailure ==
  \A r \in Reqs :
    (req[r].pc = "done" /\ req[r].resp.from = "refresh") =>
      (req[r].errFrom = "first" /\ req[r].errStatus = 401)

\* C6: when the replay of a call (a call already marked _retry) also gets
\* 401, the client removes the persisted session, signals the redirect and
\* rejects the call.
C6_ReplayUnauthorizedEndsSession ==
  [][\A r \in Reqs :
       (Answered(r) /\ req[r].retry /\ req'[r].resp.status = 401) =>
         /\ lsAuthStore' = Absent
         /\ redirects' = redirects + 1
         /\ req'[r].outcome = "rejected"]_vars

\* No refresh token is available: nothing is stored, or the stored session
\* has no refresh token.
NoRefreshToken ==
  \/ lsAuthStore = Absent
  \/ lsAuthStore.tag = "json" /\ lsAuthStore.state.refreshToken \in Falsy

\* C7: when a first 401 arrives and no refresh token is available, the
\* client removes the persisted session, signals the redirect and rejects
\* the call with its own 401 error.
C7_NoRefreshTokenEndsSession ==
  [][\A r \in Reqs :
       (Answered(r) /\ ~req[r].retry /\ req'[r].resp.status = 401 /\ NoRefreshToken) =>
         /\ lsAuthStore' = Absent
         /\ redirects' = redirects + 1
         /\ req'[r].outcome = "rejected"
         /\ req'[r].errFrom = "first"
         /\ req'[r].errStatus = 401]_vars

\* C8: a call that already carries _retry and gets 401 is rejected at once
\* with that 401: no refresh call is issued for it and it is not resent.
C8_RetriedCallFailsImmediately ==
  [][\A r \in Reqs :
       (Answered(r) /\ req[r].retry /\ req'[r].resp.status = 401) =>
         /\ req'[r].pc = "done"
         /\ req'[r].outcome = "rejected"
         /\ req'[r].errFrom = "replay"
         /\ req'[r].errStatus = 401
         /\ req'[r].refreshes = req[r].refreshes
         /\ req'[r].sends = req[r].sends]_vars

\* A replay was answered 401 and the call is over.
C8_Witness ==
  \E r \in Reqs :
    /\ req[r].pc = "done"
    /\ req[r].retry
    /\ req[r].sends = 2
    /\ req[r].resp.from = "api"
    /\ req[r].resp.status = 401
    /\ req[r].errFrom = "replay"

\* How far a call is from being settled: every handler run moves it on.
Rank(rec) ==
  CASE rec.pc = "idle" -> 4
    [] rec.pc = "sent" /\ ~rec.retry -> 3
    [] rec.pc = "refreshing" -> 2
    [] rec.pc = "sent" /\ rec.retry -> 1
    [] OTHER -> 0

\* C9: whatever the server answers, a call is transmitted at most twice
\* and at most one refresh call is made for it, every handler run brings
\* it closer to being settled (so it completes), and a failed answer of
\* the refresh endpoint (a 401 included) ends the call: no further refresh.
C9_BoundedAttempts ==
  [][\A r \in Reqs :
       /\ req'[r].sends <= 2
       /\ req'[r].refreshes <= 1
       /\ (req'[r] # req[r] => Rank(req'[r]) < Rank(req[r]))
       /\ (req'[r].pc = "done" <=> req'[r].outcome \in {"resolved", "rejected"})
       /\ (RefreshAnswered(r) /\ req'[r].resp.status # 200 =>
             /\ req'[r].pc = "done"
             /\ req'[r].refreshes = req[r].refreshes
             /\ req'[r].sends = req[r].sends)]_vars

\* One call went through refresh and replay and its replay got 401; the
\* refresh call of another one was itself answered 401.
C9_Witness ==
  \E r, q \in Reqs :
    /\ req[r].pc = "done" /\ req[r].sends = 2 /\ req[r].refreshes = 1
    /\ req[r].resp.from = "api" /\ req[r].resp.status = 401
    /\ req[q].pc = "done" /\ req[q].sends = 1 /\ req[q].refreshes = 1
    /\ req[q].resp.from = "refresh" /\ req[q].resp.status = 401

\* C10: the new access token is in the persisted session when the replay
\* is sent, the replay carries it, and it is not the token that was
\* rejected with 401; also when several calls refresh concurrently.
C10_ReplayCarriesPersistedNewToken ==
  [][\A r \in Reqs :
       (RefreshAnswered(r) /\ Transmitted(r)) =>
         /\ lsAuthStore'.tag = "json"
         /\ lsAuthStore'.state.accessToken = req'[r].resp.access_token
         /\ req'[r].hdr = req'[r].resp.access_token
         /\ req'[r].hdr # req[r].hdr]_vars

\* Two calls were rejected with the same token and refreshed concurrently;
\* both have been replayed, the second with a newer token than the first.
C10_Witness ==
  \E r, q \in Reqs :
    /\ r # q
    /\ req[r].retry /\ req[r].sends = 2 /\ req[r].resp.from = "refresh"
    /\ req[q].retry /\ req[q].sends = 2 /\ req[q].resp.from = "refresh"
    /\ req[r].authData = req[q].authData
    /\ req[r].hdr # req[q].hdr
    /\ lsAuthStore.tag = "json"
    /\ lsAuthStore.state.accessToken = req[q].hdr

\* The refresh call of r has just failed (an error status or no response).
RefreshFailed(r) == RefreshAnswered(r) /\ req'[r].resp.status # 200

\* C11: when several concurrent calls all got 401 and their refresh is
\* rejected, the persisted session is cleared and the redirect signalled
\* once for that terminal event: a call whose refresh fails after another
\* call's failed refresh already ended the session signals nothing more.
C11_OneTerminationPerEvent ==
  [][\A r \in Reqs :
       (/\ RefreshFailed(r)
        /\ lsAuthStore = Absent
        /\ \E q \in Reqs \ {r} :
             req[q].pc = "done" /\ req[q].resp.from = "refresh")
       => redirects' = redirects]_vars

\* The value under 'auth-store' holds no credential.
NoCredentials(stored) ==
  \/ stored.tag # "json"
  \/ /\ stored.state.token \in Falsy
     /\ stored.state.accessToken \in Falsy
     /\ stored.state.refreshToken \in Falsy

\* No login has been started that is not yet settled.
NoLoginInFlight ==
  \A q \in Reqs : req[q].kind = "login" => req[q].pc = "done"

\* C12: once the session has been cleared and until a new login, the
\* continuation of a call whose refresh was in flight when the clear
\* happened writes no credentials back: the persisted session stays
\* without credentials.
C12_ClearedStaysCleared ==
  [][\A r \in Reqs :
       (RefreshAnswered(r) /\ NoCredentials(lsAuthStore) /\ NoLoginInFlight) =>
         NoCredentials(lsAuthStore')]_vars

\* The stored credentials are a full pair or no credential at all.
PairComplete(stored) ==
  \/ NoCredentials(stored)
  \/ /\ (stored.state.token \notin Falsy \/ stored.state.accessToken \notin Falsy)
     /\ stored.state.refreshToken \notin Falsy

\* A step that completes login successfully.
LoginSucceeded(r) ==
  /\ req[r].kind = "login" /\ Answered(r)
  /\ req'[r].outcome = "resolved"

\* C13: after every successfully completed operation (login, token
\* refresh, checkAuth, logout) the stored credentials are fully present
\* (access and refresh token) or fully absent.
C13_PairAfterOperation ==
  [][(\/ \E r \in Reqs : LoginSucceeded(r)
      \/ \E r \in Reqs : RefreshAnswered(r) /\ req'[r].resp.status = 200
      \/ Logout
      \/ CheckAuth)
     => PairComplete(lsAuthStore')]_vars

\* A step in which a transmission of r is answered with status st.
AnsweredWith(r, st) == Answered(r) /\ req'[r].resp = Resp("api", st, Undef, Undef, Undef)

\* The call is over and its caller holds exactly the answer received.
HandedOver(r) ==
  /\ req'[r].pc = "done"
  /\ req'[r].outcome = (IF req'[r].resp.status = 200 THEN "resolved" ELSE "rejected")
  /\ req'[r].errStatus = (IF req'[r].resp.status = 200 THEN 0 ELSE req'[r].resp.status)
  /\ req'[r].errFrom = (IF req'[r].resp.status = 200 THEN "none"
                        ELSE IF req[r].sends = 1 THEN "first" ELSE "replay")

\* Nothing of the client changes around the answer: no refresh call, no
\* new transmission, no redirect, and the persisted session is the one
\* found (for the store's own login call: the one the store persists).
ClientFrame(r) ==
  /\ req'[r].refreshes = req[r].refreshes
  /\ req'[r].sends = req[r].sends
  /\ req'[r].retry = req[r].retry
  /\ redirects' = redirects
  /\ IF req[r].kind = "login"
     THEN lsAuthStore' = PersistWrite(user', token')
     ELSE lsAuthStore' = lsAuthStore

\* C14: an answer with a status other than 401 (a success or another
\* error status) is handed to the caller unchanged: no refresh call, no
\* resend, and the persisted session is not modified.
C14_OtherStatusPassesThrough ==
  [][\A r \in Reqs :
       (Answered(r) /\ req'[r].resp.status \in {200, 500}) =>
         (HandedOver(r) /\ ClientFrame(r))]_vars

\* A first transmission was answered 500 while a refresh token was stored.
C14_Witness ==
  \E r \in Reqs :
    /\ req[r].pc = "done" /\ req[r].kind = "domain"
    /\ req[r].resp.status = 500 /\ req[r].sends = 1
    /\ lsAuthStore.tag = "json" /\ lsAuthStore.state.refreshToken \notin Falsy

\* C15: a call that gets no response (network error) is rejected with
\* that error: no refresh call, no replay, persisted session unchanged.
C15_NetworkErrorPassesThrough ==
  [][\A r \in Reqs :
       AnsweredWith(r, 0) =>
         /\ req'[r].outcome = "rejected"
         /\ req'[r].errStatus = 0
         /\ req'[r].resp.from = "api"
         /\ HandedOver(r)
         /\ ClientFrame(r)]_vars

\* A first transmission got no response while a refresh token was stored.
C15_Witness ==
  \E r \in Reqs :
    /\ req[r].pc = "done" /\ req[r].kind = "domain"
    /\ req[r].resp.from = "api" /\ req[r].resp.status = 0 /\ req[r].sends = 1
    /\ req[r].outcome = "rejected"
    /\ lsAuthStore.tag = "json" /\ lsAuthStore.state.refreshToken \notin Falsy

\* A stored value that does not parse, or parses to something without the
\* state object.
Unusable == {Garbage, NoState}

\* C16: an unparseable or ill-shaped persisted value is handled like an
\* absent key: the request is sent with no Authorization header, and on a
\* first 401 the caller gets the original 401 error with the store left
\* as it was and no redirect (what happens with an absent key).
C16_UnusableLikeAbsent ==
  [][\A r \in Reqs :
       /\ (req[r].pc = "idle" /\ Transmitted(r) /\ lsAuthStore' \in Unusable)
            => req'[r].hdr = NoHeader
       /\ (Answered(r) /\ ~req[r].retry /\ req'[r].resp.status = 401
             /\ lsAuthStore \in Unusable /\ req[r].kind = "domain")
            => /\ req'[r].outcome = "rejected"
               /\ req'[r].errFrom = "first"
               /\ req'[r].errStatus = 401
               /\ redirects' = redirects
               /\ lsAuthStore' = lsAuthStore]_vars

\* C17: after a refresh was rejected no access token is left in any
\* client-side storage: neither under 'auth-store' nor under 'token'.
C17_NoTokenLeftAfterTerminalFailure ==
  [][\A r \in Reqs :
       RefreshFailed(r) =>
         (lsToken' \in Falsy /\ NoCredentials(lsAuthStore'))]_vars

\* C18: no error is swallowed: a call that is over is resolved exactly
\* when its last answer is a 200 of the server, and is otherwise rejected
\* with an error carrying the status of the failed answer; a call is
\* pending only while a transmission or its refresh call awaits an answer.
C18_NoErrorSwallowed ==
  \A r \in Reqs :
    /\ req[r].pc = "done" =>
         /\ req[r].outcome \in {"resolved", "rejected"}
         /\ req[r].outcome = "resolved" <=>
              (req[r].resp.from = "api" /\ req[r].resp.status = 200)
         /\ req[r].outcome = "rejected" =>
              (req[r].errFrom # "none" /\ req[r].errStatus = req[r].resp.status)
    /\ req[r].pc # "done" => req[r].outcome = "pending"
    /\ req[r].outcome = "pending" => req[r].pc \in {"idle", "sent", "refreshing"}

\* A call was refreshed and replayed and its replay failed with 500; it
\* is over and rejected with that error.
C18_Witness ==
  \E r \in Reqs :
    /\ req[r].pc = "done" /\ req[r].sends = 2
    /\ req[r].resp.status = 500
    /\ req[r].outcome = "rejected" /\ req[r].errFrom = "replay"

\* C19: the persisted session changes only through the auth store's own
\* operations: no step of a call that is not a store operation writes or
\* removes the value under 'auth-store'.
C19_OnlyStoreWritesSession ==
  [][\A r \in Reqs :
       (req'[r].kind = "domain" /\ req'[r] # req[r]) =>
         lsAuthStore' = lsAuthStore]_vars

\* C20: checkAuth run with a stored token that the server does not reject
\* ends with a user and that same token in the store, isLoading false,
\* and the stored token still in place.
C20_CheckAuthKeepsSession ==
  [][(CheckAuth /\ lsToken \notin Falsy) =>
       /\ token' = lsToken
       /\ lsToken' = lsToken
       /\ user' \notin Falsy
       /\ isLoading' = FALSE]_vars

\* The state a page load leaves: no call in flight, the store as hydrated.
JustStarted ==
  /\ \A r \in Reqs : req[r] = IdleReq
  /\ user = Hydrated(lsAuthStore, "user")
  /\ token = Hydrated(lsAuthStore, "token")
  /\ isLoading = FALSE

\* C21: a session survives a restart: when the page starts with user U and
\* token T persisted and T under 'token', the startup checkAuth leaves the
\* store holding U and T again.
C21_SessionSurvivesRestart ==
  [][(CheckAuth /\ JustStarted /\ user \notin Falsy /\ token \notin Falsy
        /\ lsToken = token)
     => (user' = user /\ token' = token)]_vars

\* C22: right after a successful login the store holds the user, the
\* access token and the refresh token of the login response; right after
\* logout it holds no user and no token.
C22_ReadAfterLoginAndLogout ==
  [][/\ \A r \in Reqs :
          LoginSucceeded(r) =>
            /\ user' = req'[r].resp.user
            /\ token' = req'[r].resp.access_token
            /\ lsAuthStore'.state.refreshToken = req'[r].resp.refresh_token
     /\ Logout => (user' = Null /\ token' = Null)]_vars

\* The store and the 'token' key hold no session.
LoggedOutStore ==
  /\ user = Null
  /\ token = Null
  /\ isLoading = FALSE
  /\ lsToken = Null

\* C23: logout always ends in the logged-out state (user, token, isLoading
\* and the 'token' key), so a second logout changes nothing, and logout on
\* an already-empty store changes none of them; it sends no request and
\* signals no error.
C23_LogoutIdempotent ==
  [][Logout =>
       /\ LoggedOutStore'
       /\ LoggedOutStore =>
            <<user', token', isLoading', lsToken'>> = <<user, token, isLoading, lsToken>>
       /\ req' = req
       /\ redirects' = redirects]_vars

\* A session opened by a login has been ended again.
C23_Witness ==
  /\ LoggedOutStore
  /\ lsAuthStore = PersistWrite(Null, Null)
  /\ \E r \in Reqs : req[r].kind = "login" /\ req[r].outcome = "resolved"

\* A login or a store refreshToken call awaits its response.
InFlight(r, kind) == req[r].kind = kind /\ req[r].pc \in {"sent", "refreshing"}
NoStoreOperationInFlight ==
  \A r \in Reqs : ~InFlight(r, "login") /\ ~InFlight(r, "refreshToken")

\* The 'token' key is present exactly when the store has a token, and
\* then both are the same token.
TokenCopiesAgree == lsToken = token

\* The only login of the run is answered after the session was ended
\* while it was awaiting: login set isLoading, and only a logout (by
\* logout, checkAuth or a failed refreshToken) has cleared it since.
AnsweredAfterLogout(r) ==
  /\ InFlight(r, "login") /\ req'[r].pc = "done"
  /\ \A q \in Reqs \ {r} : req[q].kind # "login"
  /\ isLoading = FALSE

\* C24: whenever no store operation is in flight the 'token' key and the
\* store's token agree, and a logout that happens while a login awaits
\* its response is not undone when the response arrives.
C24_TokenCopiesAgree ==
  [][/\ NoStoreOperationInFlight' => TokenCopiesAgree'
     /\ \A r \in Reqs : AnsweredAfterLogout(r) => LoggedOutStore']_vars

\* The first half of C24 alone.
TokenCopiesAlwaysAgree == NoStoreOperationInFlight => TokenCopiesAgree

\* C25: isLoading is true exactly while a login (or a checkAuth, which
\* never awaits) is awaiting its response.
C25_LoadingWhileAwaiting ==
  isLoading <=> (\E r \in Reqs : InFlight(r, "login"))

\* A step in which the call r of the given kind settles.
Settled(r, kind) == InFlight(r, kind) /\ req'[r].pc = "done"

\* C26: a login whose request is rejected changes no credential: neither
\* its start nor its failure changes user, token or the 'token' key; the
\* failure sets isLoading to false and the caller gets the error.
C26_FailedLoginKeepsCredentials ==
  [][\A r \in Reqs :
       /\ Login(r) => <<user', token', lsToken'>> = <<user, token, lsToken>>
       /\ (Settled(r, "login") /\ req'[r].outcome = "rejected") =>
            /\ <<user', token', lsToken'>> = <<user, token, lsToken>>
            /\ isLoading' = FALSE
            /\ req'[r].errFrom # "none"]_vars

\* A login has failed while the store holds a session.
C26_Witness ==
  /\ \E r \in Reqs : /\ req[r].kind = "login" /\ req[r].pc = "done"
                     /\ req[r].outcome = "rejected"
  /\ user \notin Falsy /\ token \notin Falsy /\ lsToken = token
  /\ isLoading = FALSE

\* C27: checkAuth always ends logged out (no 'token' key, user and token
\* null, isLoading false) without sending a request or signalling an
\* error, whether a token was stored (the identity call fails) or not.
C27_CheckAuthEndsLoggedOut ==
  [][CheckAuth =>
       /\ user' = Null /\ token' = Null /\ isLoading' = FALSE
       /\ lsToken' \in Falsy
       /\ lsToken \in Falsy => lsToken' = lsToken
       /\ req' = req
       /\ redirects' = redirects]_vars

\* The store was cleared while a login was awaiting its response.
C27_Witness ==
  /\ user = Null /\ token = Null /\ lsToken = Null /\ isLoading = FALSE
  /\ lsAuthStore = PersistWrite(Null, Null)
  /\ \E r \in Reqs : InFlight(r, "login")
  /\ issued > 0

\* C28: when the store's refreshToken settles, either the returned access
\* token is in the store and under 'token' and user is unchanged, or (the
\* request failed) the session is ended and the caller gets the error.
C28_RefreshTokenReplacesOrLogsOut ==
  [][\A r \in Reqs :
       Settled(r, "refreshToken") =>
         IF req'[r].outcome = "resolved"
         THEN /\ token' = req'[r].resp.access_token
              /\ lsToken' = req'[r].resp.access_token
              /\ user' = user
         ELSE /\ user' = Null /\ token' = Null /\ lsToken' = Null
              /\ req'[r].errFrom # "none"]_vars

\* A refreshToken has failed, and another one has replaced the token.
C28_Witness ==
  \E r, q \in Reqs :
    /\ req[r].kind = "refreshToken" /\ req[r].outcome = "rejected"
    /\ req[q].kind = "refreshToken" /\ req[q].outcome = "resolved"
    /\ token = req[q].resp.access_token /\ lsToken = token

\* C29: the inline Accept or Reject control of a row submits a review
\* request for that row's adjustment, whatever was selected before: every
\* mutation started from a row carries that row's id and posts to that
\* row's review url.
C29_InlineReviewTargetsItsRow ==
  \A i \in 1..Len(reviews) :
    reviews[i].row # NoAdjustment =>
      /\ reviews[i].variables.id = reviews[i].row
      /\ reviews[i].request.url = reviewAdjustment(Num(reviews[i].row), Undef).url

\* A step that sends a change-password request.
PasswordRequestSent ==
  passwordMutation.status # "loading" /\ passwordMutation'.status = "loading"

\* A step that edits one input and nothing else.
OneFieldEdited ==
  /\ \E f \in Fields, v \in Texts : formData' = [formData EXCEPT ![f] = v]
  /\ passwordMutation' = passwordMutation

\* C30: a change-password request is sent only when new_password equals
\* confirm_password, and carries the form; a submit with different
\* passwords sends nothing and leaves the form; the form is emptied only
\* when the request has succeeded and is kept when it fails.
C30_PasswordRequestOnlyOnMatch ==
  [][/\ PasswordRequestSent =>
          /\ formData.new_password = formData.confirm_password
          /\ passwordMutation'.request.body = formData
          /\ formData' = formData
     /\ (HandleSubmit /\ formData.new_password # formData.confirm_password) =>
          (formData' = formData /\ passwordMutation' = passwordMutation)
     /\ formData' # formData =>
          \/ OneFieldEdited
          \/ /\ passwordMutation.status = "loading"
             /\ passwordMutation'.status = "success"
             /\ formData' = EmptyForm
     /\ (passwordMutation.status = "loading" /\ passwordMutation'.status = "error") =>
          formData' = formData]_vars

\* A request with matching passwords has succeeded and emptied the form,
\* and a later submit with different passwords was refused.
C30_Witness ==
  /\ passwordMutation.status = "success"
  /\ passwordMutation.variables.new_password = passwordMutation.variables.confirm_password
  /\ passwordMutation.variables.new_password # ""
  /\ toast = "Passwords do not match"
  /\ formData.new_password # formData.confirm_password

====
